---- MODULE Spec2Model ----
(***************************************************************************)
(* BzDeck: the Attachment model (AttachmentModel) and what it touches: the *)
(* Remote Client (BzDeck.host.request), the attachment and bug             *)
(* collections, the parent Bug's embedded attachment list, the Local Store *)
(* and the decoder worker.                                                 *)
(*                                                                         *)
(* One AttachmentModel instance is modelled.  Every async method call is a *)
(* task in a call slot; a task runs from one await to the next in one      *)
(* atomic step (single-threaded cooperative scheduling).                   *)
(*                                                                         *)
(* Three more parts have specifications of their own: an Entity Collection *)
(* (SpecColl), the account database of AccountDataSource (SpecDB) and the  *)
(* constructor of BugTimelineView (SpecTimeline).                          *)
(***************************************************************************)
EXTENDS Integers, Sequences, FiniteSets, TLC

\* ------------------------------------------------------------ bounds
MaxCalls == 2
MaxAtts == 2

Calls == 1 .. MaxCalls

\* ------------------------------------------------------------ values
Ids == {7, 8}
BugIds == {42}
Undefined == "undefined"
Payloads == {"p1", "p2"}
ContentTypes == {"text/plain"}

\* `undefined` where a record is expected (result.attachments[id] of an id
\* the response omits; this.data after such a lookup was assigned).
NoRecord ==
  [def |-> FALSE, bug_id |-> 0,
   content_type |-> Undefined, is_patch |-> FALSE, data |-> Undefined]

\* A raw attachment object as the server sends it for a full request.
FullRecords ==
  [def : {TRUE}, bug_id : BugIds,
   content_type : ContentTypes, is_patch : {FALSE},
   data : Payloads \cup {Undefined}]

\* The raw attachment object the model is constructed from: without payload,
\* or with the payload the parent Bug may hold already.
InitRecords ==
  [def : {TRUE}, bug_id : BugIds,
   content_type : ContentTypes, is_patch : {FALSE},
   data : {Undefined, "p1"}]

\* A raw attachment object of an include_fields=data request: only `data`.
PartialRecords ==
  [def : {TRUE}, bug_id : {0},
   content_type : {Undefined}, is_patch : {FALSE},
   data : Payloads \cup {Undefined, ""}]

\* JavaScript truthiness of a payload value (a string or undefined).
Truthy(v) == v # Undefined /\ v # ""

\* An entry of bug.attachments: a data-less stub or an entry with a payload
\* of this attachment, or a stub of another attachment.
Entries ==
  {[id |-> 7, data |-> Undefined], [id |-> 7, data |-> "p1"],
   [id |-> 8, data |-> Undefined]}

RECURSIVE SeqsUpTo(_, _)
SeqsUpTo(S, n) ==
  IF n = 0 THEN {<<>>}
  ELSE LET shorter == SeqsUpTo(S, n - 1)
       IN  shorter \cup {Append(s, e) : s \in {t \in shorter : Len(t) = n - 1}, e \in S}

\* An in-memory or stored Bug: def = FALSE is `undefined` (not cached, not
\* stored); hasAtts = FALSE is a Bug without an `attachments` field; `other`
\* stands for its comments, history and remaining fields.
OtherFields == "comments, history"
NoBug == [def |-> FALSE, hasAtts |-> FALSE, attachments |-> <<>>, other |-> "none"]
BugValues ==
  {NoBug, [def |-> TRUE, hasAtts |-> FALSE, attachments |-> <<>>, other |-> OtherFields]}
    \cup {[def |-> TRUE, hasAtts |-> TRUE, attachments |-> s, other |-> OtherFields] :
            s \in SeqsUpTo(Entries, MaxAtts)}


\* ------------------------------------------------------------ Remote Client
\* What BzDeck.host.request() settles with: a rejection (ok = FALSE) or a
\* result whose `attachments` maps ids to raw attachment objects.
RequestFailed == "RequestFailed"
TypeError == "TypeError"
AttachmentUnavailable == "The attachment could not be retrieved from Bugzilla."

FullQuery == "none"
DataOnlyQuery == "include_fields=data"

Fail == [ok |-> FALSE, attachments |-> [i \in Ids |-> NoRecord]]

RecordsFor(query) ==
  IF query = DataOnlyQuery THEN PartialRecords ELSE FullRecords

\* The record the response carries under an id that was not asked for.
Decoy(query) ==
  IF query = DataOnlyQuery
  THEN [NoRecord EXCEPT !.def = TRUE, !.data = "p2"]
  ELSE [def |-> TRUE, bug_id |-> 42,
        content_type |-> "image/png", is_patch |-> FALSE, data |-> "p2"]

\* The results a request for attachment `asked` with `query` can settle with.
Responses(asked, query) ==
  {Fail} \cup
  {[ok |-> TRUE,
    attachments |-> [i \in Ids |-> IF i = asked THEN record ELSE Decoy(query)]] :
     record \in RecordsFor(query) \cup {NoRecord}}

\* ------------------------------------------------------------ state
VARIABLES
  id,       \* this.id of the AttachmentModel
  data,     \* this.data of the AttachmentModel (NoRecord: undefined)
  attColl,  \* BzDeck.collections.attachments: the data last set() under id
  bugs,     \* BzDeck.collections.bugs: bug id -> cached Bug (NoBug: none)
  store,    \* Local Store, object store `bugs`: bug id -> stored Bug
  writes,   \* bug.save() calls whose store write is still pending, in order
  calls,    \* the async method calls made on the model, by call slot
  last,     \* `result` of the request that settled last, and the call it was for
  coll,     \* an Entity Collection: its map of instances and what get() returned
  db,       \* the account database of AccountDataSource: version, schema, rows
  view,     \* a BugTimelineView: the Bug it is built from and this.entries
  render,   \* the rendering of the view's records: flags, batches, expander
  page,     \* a ProfilePage: its panel, status area and pending promises
  media     \* the media containers of the timeline and their get_data() calls

\* The AttachmentModel and its collaborators.
attVars == <<id, data, attColl, bugs, store, writes, calls, last>>

\* The state outside the AttachmentModel and its collaborators.
restVars == <<coll, db, view, render, page, media>>

vars == <<id, data, attColl, bugs, store, writes, calls, last, restVars>>

\* No request has settled yet.
NoArrival == [call |-> 0, ok |-> FALSE, got |-> NoRecord]

\* A collection right after its construction: no instance, nothing stored.
CollIds == {41, 42, 43}
CollData == {"d1", "d2"}
CollNew ==
  [map |-> [i \in CollIds |-> 0], insts |-> <<>>,
   stored |-> [i \in CollIds |-> Undefined],
   returned |-> <<>>, ops |-> 0]

\* The account database before it was ever opened (version 0, no store).
NoDatabase ==
  [version |-> 0, stores |-> {}, indexes |-> {}, applied |-> <<>>,
   path |-> <<>>, error |-> "none", bugs |-> {}, users |-> {}, prefs |-> {}]

\* Nothing is being rendered.
NoRender ==
  [flags |-> <<>>, passes |-> <<>>, batches |-> {}, expander |-> "none",
   clicks |-> 0, threw |-> FALSE]

\* No BugTimelineView constructed.
NoView ==
  [state |-> "none", comments |-> <<>>, attachments |-> <<>>, history |-> <<>>,
   delayed |-> FALSE, lastVisit |-> Undefined, entries |-> <<>>,
   dataArr |-> <<>>, readComments |-> 0, expander |-> 0]

\* No ProfilePage is open.
NoPage ==
  [pc |-> "none", name |-> "none", self |-> FALSE, busy |-> FALSE,
   status |-> "", title |-> "none", failed |-> FALSE, message |-> "none",
   profileId |-> 0, gravatar |-> "none", background |-> "none"]

\* No timeline with media containers.
NoMedia ==
  [state |-> "none", elems |-> <<>>, jobs |-> {}, changes |-> 0,
   last |-> [name |-> "none", value |-> FALSE]]

\* Nothing of the views is under way.
UiIdle == render = NoRender /\ page = NoPage /\ media = NoMedia

IdleCall ==
  [op |-> "none", pc |-> "idle", outcome |-> "pending", error |-> "none",
   nreq |-> 0, path |-> 0, query |-> "none",
   stale |-> FALSE, had |-> FALSE,
   sv |-> "none", svBug |-> 0,
   nmsg |-> 0, msgStr |-> "none", msgType |-> "none",
   blob |-> "none", text |-> "none"]

Init ==
  /\ id = 7
  /\ data \in InitRecords
  /\ attColl = data
  /\ bugs \in [BugIds -> BugValues]
  /\ store = bugs
  /\ writes = <<>>
  /\ calls = [c \in Calls |-> IdleCall]
  /\ last = NoArrival
  /\ coll = CollNew
  /\ db = NoDatabase
  /\ view = NoView /\ UiIdle


\* ------------------------------------------------------------ helpers
\* Call slots are taken in order: slot c is the c-th call made on the model.
CanStart(c) ==
  /\ calls[c].pc = "idle"
  /\ \A d \in Calls : d < c => calls[d].pc # "idle"

\* Every other call whose request is in flight learns that this.data changed
\* under it (an observer of the model, not a field of the program).
MarkStale(cs, c, changed) ==
  [d \in Calls |->
     IF d # c /\ changed /\ cs[d].pc = "request"
     THEN [cs[d] EXCEPT !.stale = TRUE]
     ELSE cs[d]]

\* A method that issues its request a second time.
Requested_Twice(call, query) ==
  [call EXCEPT !.pc = "request", !.nreq = @ + 2, !.path = id, !.query = query]

\* BzDeck.host.request(`bug/attachment/${this.id}`, query) is issued.
Requested(call, query) ==
  [call EXCEPT !.pc = "request", !.nreq = @ + 1, !.path = id, !.query = query]

\* A lookup under another key than this.id.
Lookup_OtherId(result, i) == result.attachments[CHOOSE j \in Ids : j # i]

\* result.attachments[this.id]
Lookup(result, i) == result.attachments[i]

\* The request of call c has settled with r: whether it resolved, and the raw
\* attachment object the server sent under this.id (an observer of the
\* exchange, read off the result itself).
Arrived(c, r) == [call |-> c, ok |-> r.ok, got |-> r.attachments[id]]

Rejected(call, error) ==
  [call EXCEPT !.pc = "settled", !.outcome = "rejected", !.error = error]

\* ------------------------------------------------------------ fetch()
\* fetch(): up to the await of the request.
Fetch(c) ==
  /\ CanStart(c)
  /\ calls' = [calls EXCEPT ![c] = Requested([@ EXCEPT !.op = "fetch"], FullQuery)]
  /\ UNCHANGED <<restVars, id, data, attColl, bugs, store, writes, last>>

\* this.data after the await of fetch() has returned `result`.
FetchedData(result) == Lookup(result, id)

\* fetch(): the request settles with r and the rest of the method runs.
FetchResponse(c, r) ==
  /\ calls[c].op = "fetch"
  /\ calls[c].pc = "request"
  /\ IF ~r.ok
     THEN /\ calls' = [calls EXCEPT ![c] =
                 Rejected(@, RequestFailed)]
          /\ UNCHANGED data
     ELSE /\ data' = FetchedData(r)
          /\ calls' = MarkStale(
                 [calls EXCEPT ![c] =
                    [@ EXCEPT !.pc = "settled", !.outcome = "resolved"]],
                 c, data' # data)
  /\ last' = Arrived(c, r)
  /\ UNCHANGED <<restVars, id, attColl, bugs, store, writes>>


\* ------------------------------------------------------------ get_data()
\* decode(): the `decode` message is posted to the worker with the model's
\* payload and content type; the call waits for the worker's message.
Decoding(call, d) ==
  [call EXCEPT !.pc = "decode", !.nmsg = @ + 1,
               !.msgStr = d.data, !.msgType = d.content_type]

\* get_data() without the test of the cached payload.
PayloadPresent_Never == FALSE

\* if (this.data.data)
PayloadPresent == Truthy(data.data)

\* get_data() that asks the server whatever the model holds.
GetData_AlwaysRequest(c) ==
  /\ CanStart(c)
  /\ LET call == [calls[c] EXCEPT !.op = "get_data",
                                  !.had = (data.def /\ Truthy(data.data))]
     IN  calls' = [calls EXCEPT ![c] =
           IF ~data.def THEN Rejected(call, TypeError)
           ELSE Requested(call, DataOnlyQuery)]
  /\ UNCHANGED <<restVars, id, data, attColl, bugs, store, writes, last>>

\* get_data(): up to the first await (or to the return of decode()).
GetData(c) ==
  /\ CanStart(c)
  /\ LET call == [calls[c] EXCEPT !.op = "get_data",
                                  !.had = (data.def /\ Truthy(data.data))]
     IN  calls' = [calls EXCEPT ![c] =
           IF ~data.def THEN Rejected(call, TypeError)
           ELSE IF PayloadPresent THEN Decoding(call, data)
           ELSE Requested(call, DataOnlyQuery)]
  /\ UNCHANGED <<restVars, id, data, attColl, bugs, store, writes, last>>

\* attachment && attachment.data ? attachment.data : undefined
PayloadOf(attachment) ==
  IF attachment.def /\ Truthy(attachment.data) THEN attachment.data ELSE Undefined

\* get_data() without the test of the fetched payload.
Missing_Never(payload) == FALSE

\* if (!data)
Missing(payload) == ~Truthy(payload)

\* The try block throws: the request rejected, the payload is missing, or
\* this.data is undefined when this.data.data is assigned.
TryThrows(r) ==
  \/ ~r.ok
  \/ Missing(PayloadOf(Lookup(r, id)))
  \/ ~data.def

\* The payload assigned before it is tested.
DataAfterResponse_AssignFirst(r) ==
  IF r.ok /\ data.def /\ Lookup(r, id).def
  THEN [data EXCEPT !.data = Lookup(r, id).data]
  ELSE data

\* this.data after the try block has run on the result r.
DataAfterResponse(r) ==
  IF TryThrows(r) THEN data ELSE [data EXCEPT !.data = PayloadOf(Lookup(r, id))]

\* save() up to its await of bugs.get(this.data.bug_id), for a defined this.data.
SaveStarted(call, d) == [call EXCEPT !.sv = "bugs_get", !.svBug = d.bug_id]

\* get_data(): the request settles with r and the rest of the method runs:
\* the payload is assigned, set() and save() are called (neither is awaited)
\* and decode() posts its message.
GetDataResponse(c, r) ==
  /\ calls[c].op = "get_data"
  /\ calls[c].pc = "request"
  /\ data' = DataAfterResponse(r)
  /\ last' = Arrived(c, r)
  /\ LET call == calls[c]
     IN  IF TryThrows(r)
         THEN /\ calls' = MarkStale(
                     [calls EXCEPT ![c] = Rejected(call, AttachmentUnavailable)],
                     c, data' # data)
              /\ attColl' = attColl
         ELSE /\ calls' = MarkStale(
                     [calls EXCEPT ![c] = Decoding(SaveStarted(call, data'), data')],
                     c, data' # data)
              /\ attColl' = data'
  /\ UNCHANGED <<restVars, id, bugs, store, writes>>

\* The worker's answer to ['decode', { str, type }] on the port the message
\* came in on: the bytes of the Base64 string `str`, as `binary` and in `blob`.
WorkerDecode(str) ==
  CASE str = "p1" -> "bytes1"
    [] str = "p2" -> "bytes2"
    [] OTHER -> "bytes0"

\* A listener that takes every content type for text.
IsTextual_Any(type) == TRUE

\* this.content_type.startsWith('text/')
IsTextual(type) == type \in {"text/plain"}

\* this.is_patch || this.content_type.startsWith('text/'); .startsWith of
\* an undefined content type throws.
ListenerThrows ==
  \/ ~data.def
  \/ ~data.is_patch /\ data.content_type = Undefined

\* The worker's message arrives on the port of call c: the listener derives
\* `text` from the model as it is now and resolves.
WorkerResponds(c) ==
  /\ calls[c].pc = "decode"
  /\ calls' = [calls EXCEPT ![c] =
       IF ListenerThrows
       THEN [@ EXCEPT !.pc = "hung"]
       ELSE [@ EXCEPT !.pc = "settled", !.outcome = "resolved",
                      !.blob = WorkerDecode(calls[c].msgStr),
                      !.text = IF data.is_patch \/ IsTextual(data.content_type)
                               THEN "binary" ELSE Undefined]]
  /\ UNCHANGED <<restVars, id, data, attColl, bugs, store, writes, last>>


\* ------------------------------------------------------------ save()
\* save(): up to the await of bugs.get(); this.data.bug_id throws on an
\* undefined this.data.
Save(c) ==
  /\ CanStart(c)
  /\ LET call == [calls[c] EXCEPT !.op = "save"]
     IN  calls' = [calls EXCEPT ![c] =
           IF ~data.def THEN [Rejected(call, TypeError) EXCEPT !.sv = "rejected"]
           ELSE [SaveStarted(call, data) EXCEPT !.pc = "bugs_get"]]
  /\ UNCHANGED <<restVars, id, data, attColl, bugs, store, writes, last>>

\* bugs.get(bug_id): the cached Bug, or none.
BugsGet(bugId) == IF bugId \in BugIds THEN bugs[bugId] ELSE NoBug

\* bug && bug.attachments && bug.attachments.length
HasAttachments(bug) == bug.def /\ bug.hasAtts /\ Len(bug.attachments) > 0

\* The loop without the comparison of the ids.
NeedsData_AnyStub(att) == ~Truthy(att.data)

\* att.id === this.id && !att.data
NeedsData(att) == att.id = id /\ ~Truthy(att.data)

\* bug.attachments[index] after one turn of the loop.
UpdatedEntry(att) ==
  IF NeedsData(att) THEN [att EXCEPT !.data = data.data] ELSE att

\* The loop reads this.data.data of an undefined this.data: TypeError.
SaveThrows(bug) ==
  /\ HasAttachments(bug)
  /\ ~data.def
  /\ \E i \in DOMAIN bug.attachments : NeedsData(bug.attachments[i])

\* A loop that keeps the entries of this attachment only.
SavedBug_OnlyMine(bug) ==
  [bug EXCEPT !.attachments =
     LET mine == SelectSeq(@, LAMBDA att : att.id = id)
     IN  [i \in DOMAIN mine |-> UpdatedEntry(mine[i])]]

\* The Bug after the loop over bug.attachments.
SavedBug(bug) ==
  [bug EXCEPT !.attachments = [i \in DOMAIN @ |-> UpdatedEntry(@[i])]]

\* A save() that awaits bugs.get(): a direct call, or the one get_data() made.
SaveAwaits(c) ==
  /\ calls[c].sv = "bugs_get"
  /\ \/ calls[c].op = "save" /\ calls[c].pc = "bugs_get"
     \/ calls[c].op = "get_data"

SaveSettled(call, outcome, error) ==
  IF call.op = "save"
  THEN [call EXCEPT !.sv = outcome, !.pc = "settled", !.outcome = outcome,
                    !.error = error]
  ELSE [call EXCEPT !.sv = outcome]

\* save(): bugs.get() resolves and the rest of the method runs; bug.save() is
\* called and not awaited.
SaveResume(c) ==
  /\ SaveAwaits(c)
  /\ LET bug == BugsGet(calls[c].svBug)
     IN  IF SaveThrows(bug)
         THEN /\ calls' = [calls EXCEPT ![c] = SaveSettled(@, "rejected", TypeError)]
              /\ UNCHANGED <<bugs, writes>>
         ELSE /\ calls' = [calls EXCEPT ![c] = SaveSettled(@, "resolved", "none")]
              /\ IF HasAttachments(bug)
                 THEN /\ bugs' = [bugs EXCEPT ![calls[c].svBug] = SavedBug(bug)]
                      /\ writes' = Append(writes,
                                     [key |-> calls[c].svBug, val |-> SavedBug(bug)])
                 ELSE UNCHANGED <<bugs, writes>>
  /\ UNCHANGED <<restVars, id, data, attColl, store, last>>

\* ------------------------------------------------------------ Local Store
\* The oldest pending write of a Bug is committed.
StoreCommit ==
  /\ writes # <<>>
  /\ store' = [store EXCEPT ![Head(writes).key] = Head(writes).val]
  /\ writes' = Tail(writes)
  /\ UNCHANGED <<restVars, id, data, attColl, bugs, calls, last>>

\* The oldest pending write fails (StoreError); nobody awaits bug.save().
StoreFails ==
  /\ writes # <<>>
  /\ writes' = Tail(writes)
  /\ UNCHANGED <<restVars, id, data, attColl, bugs, store, calls, last>>

\* ------------------------------------------------------------ specification
Next ==
  \/ \E c \in Calls : Fetch(c)
  \/ \E c \in Calls : calls[c].pc = "request" /\ calls[c].op = "fetch"
        /\ \E r \in Responses(calls[c].path, calls[c].query) : FetchResponse(c, r)
  \/ \E c \in Calls : GetData(c)
  \/ \E c \in Calls : calls[c].pc = "request" /\ calls[c].op = "get_data"
        /\ \E r \in Responses(calls[c].path, calls[c].query) : GetDataResponse(c, r)
  \/ \E c \in Calls : WorkerResponds(c)
  \/ \E c \in Calls : Save(c)
  \/ \E c \in Calls : SaveResume(c)
  \/ StoreCommit
  \/ StoreFails

Spec == Init /\ [][Next]_vars

\* The same steps under the event loop's scheduling: a request in flight
\* settles, the worker answers a message it was sent, a resumed method runs
\* and a pending write ends.  The calls are finitely many, so weak fairness
\* of the whole step gives each of them its turn.
SpecLive == Init /\ [][Next]_vars /\ WF_vars(Next)

\* ------------------------------------------------------------ decoding
\* The same model over attachments of several kinds: a patch or not, of a
\* textual content type or not.  The parent Bug holds one stub of the
\* attachment.
DecodeTypes == {"text/plain", "image/png"}

TypedRecords ==
  [def : {TRUE}, bug_id : BugIds,
   content_type : DecodeTypes, is_patch : BOOLEAN, data : {Undefined, "p1"}]

\* The results a request can settle with when the server holds attachments
\* of these kinds.
TypedResponses(asked, query) ==
  IF query = DataOnlyQuery THEN Responses(asked, query)
  ELSE {Fail} \cup
       {[ok |-> TRUE,
         attachments |-> [i \in Ids |-> IF i = asked THEN record ELSE Decoy(query)]] :
          record \in TypedRecords \cup {NoRecord}}

InitDecode ==
  /\ id = 7
  /\ data \in TypedRecords
  /\ attColl = data
  /\ bugs = [b \in BugIds |->
               [def |-> TRUE, hasAtts |-> TRUE,
                attachments |-> <<[id |-> 7, data |-> Undefined]>>,
                other |-> OtherFields]]
  /\ store = bugs
  /\ writes = <<>>
  /\ calls = [c \in Calls |-> IdleCall]
  /\ last = NoArrival
  /\ coll = CollNew
  /\ db = NoDatabase
  /\ view = NoView /\ UiIdle

NextDecode ==
  \/ \E c \in Calls : Fetch(c)
  \/ \E c \in Calls : calls[c].pc = "request" /\ calls[c].op = "fetch"
        /\ \E r \in TypedResponses(calls[c].path, calls[c].query) : FetchResponse(c, r)
  \/ \E c \in Calls : GetData(c)
  \/ \E c \in Calls : calls[c].pc = "request" /\ calls[c].op = "get_data"
        /\ \E r \in TypedResponses(calls[c].path, calls[c].query) : GetDataResponse(c, r)
  \/ \E c \in Calls : WorkerResponds(c)
  \/ \E c \in Calls : Save(c)
  \/ \E c \in Calls : SaveResume(c)
  \/ StoreCommit
  \/ StoreFails

SpecDecode == InitDecode /\ [][NextDecode]_vars


\* ------------------------------------------------------------ Entity Collection
\* An Entity Collection (spec section 4.2): `map` gives the instance
\* registered under an id (0: none), `insts` the instances constructed so
\* far, in order (an instance is named by its position), `stored` the data
\* persisted per id, `returned` the <<id, instance>> pairs that get() and
\* get_many() have handed out, in order.
MaxOps == 4

\* The attachment model at rest, for the specifications of the other parts.
AttIdle ==
  /\ id = 7
  /\ data = [def |-> TRUE, bug_id |-> 42, content_type |-> "text/plain",
             is_patch |-> FALSE, data |-> Undefined]
  /\ attColl = data
  /\ bugs = [b \in BugIds |-> NoBug]
  /\ store = bugs
  /\ writes = <<>>
  /\ calls = [c \in Calls |-> IdleCall]
  /\ last = NoArrival

\* A collection whose get() never finds the instance it has registered.
CollHas_Never(c, i) == FALSE

\* "the cached instance if present"
CollHas(c, i) == c.map[i] # 0

\* The ids of S in increasing order.
RECURSIVE InOrder(_)
InOrder(S) ==
  IF S = {} THEN <<>>
  ELSE LET least == CHOOSE i \in S : \A j \in S : i <= j
       IN  <<least>> \o InOrder(S \ {least})

\* A new instance is constructed with `d` and registered under id i.
Registered(c, i, d) ==
  [c EXCEPT !.insts = Append(@, [id |-> i, data |-> d]),
            !.map = [@ EXCEPT ![i] = Len(c.insts) + 1]]

\* get(id) without the bookkeeping of what was returned: the cached instance
\* is kept, otherwise an uninitialized one is constructed and registered.
Got(c, i) == IF CollHas(c, i) THEN c ELSE Registered(c, i, Undefined)

\* get_many(ids), one id at a time: an absent instance is loaded from the
\* Local Store (with the data stored under the id, if any).
RECURSIVE GotMany(_, _)
GotMany(c, ids) ==
  IF ids = <<>> THEN c
  ELSE LET i == Head(ids)
           next == IF CollHas(c, i) THEN c ELSE Registered(c, i, c.stored[i])
       IN  GotMany([next EXCEPT !.returned = Append(@, <<i, next.map[i]>>)],
                   Tail(ids))

CollGet(i) ==
  /\ coll.ops < MaxOps
  /\ LET next == Got(coll, i)
     IN  coll' = [next EXCEPT !.returned = Append(@, <<i, next.map[i]>>),
                              !.ops = @ + 1]
  /\ UNCHANGED <<attVars, db, view, render, page, media>>

CollGetMany(S) ==
  /\ coll.ops < MaxOps
  /\ coll' = [GotMany(coll, InOrder(S)) EXCEPT !.ops = @ + 1]
  /\ UNCHANGED <<attVars, db, view, render, page, media>>

\* set(id, data): the backing data of the cached instance is replaced, or an
\* instance is created with it; the data is persisted.
CollSet(i, d) ==
  /\ coll.ops < MaxOps
  /\ LET next == IF CollHas(coll, i)
                 THEN [coll EXCEPT !.insts[coll.map[i]].data = d]
                 ELSE Registered(coll, i, d)
     IN  coll' = [next EXCEPT !.stored[i] = d, !.ops = @ + 1]
  /\ UNCHANGED <<attVars, db, view, render, page, media>>

InitColl == AttIdle /\ coll = CollNew /\ db = NoDatabase /\ view = NoView /\ UiIdle

NextColl ==
  \/ \E i \in CollIds : CollGet(i)
  \/ \E S \in (SUBSET CollIds) \ {{}} : CollGetMany(S)
  \/ \E i \in CollIds, d \in CollData : CollSet(i, d)

SpecColl == InitColl /\ [][NextColl]_vars

\* ------------------------------------------------------------ AccountDataSource
\* The account database: `version` as the store engine records it, `stores`
\* and `indexes` its schema, `bugs`, `users` and `prefs` the rows of these
\* stores.
\* `applied` lists the migration steps applied over the life of the database
\* and `path` the versions it was opened with (observers).
MaxOpens == 3

BugsStore == [name |-> "bugs", keyPath |-> "id"]
UsersStore == [name |-> "users", keyPath |-> "name"]
PrefsStore == [name |-> "prefs", keyPath |-> "name"]
AliasIndex ==
  [store |-> "bugs", name |-> "alias", keyPath |-> "alias", unique |-> TRUE]
UserIdIndex ==
  [store |-> "users", name |-> "id", keyPath |-> "id", unique |-> TRUE]

BugRows == [id : {1, 2}, alias : {"a", "b"}]
UserRows == [name : {"n1", "n2"}, id : {1, 2}]
PrefRows == [name : {"ui.theme"}, value : {"Light", "Dark"}]

Threw(d, error) == [d EXCEPT !.error = error]

\* Step 1 that leaves the users' id index out.
CreateInitialStores_NoUserIndex(d) ==
  IF \E st \in d.stores : st.name \in {"bugs", "users", "prefs"}
  THEN Threw(d, "ConstraintError")
  ELSE [d EXCEPT !.stores = @ \cup {BugsStore, UsersStore, PrefsStore},
                 !.indexes = @ \cup {AliasIndex},
                 !.applied = Append(@, 1)]

\* Step 1, "Create the initial stores"; createObjectStore() throws when a
\* store of the name exists.
CreateInitialStores(d) ==
  IF \E st \in d.stores : st.name \in {"bugs", "users", "prefs"}
  THEN Threw(d, "ConstraintError")
  ELSE [d EXCEPT !.stores = @ \cup {BugsStore, UsersStore, PrefsStore},
                 !.indexes = @ \cup {AliasIndex, UserIdIndex},
                 !.applied = Append(@, 1)]

\* Step 2 that keeps the index.
DeleteAliasIndex_Keep(d) ==
  IF AliasIndex \notin d.indexes
  THEN Threw(d, "NotFoundError")
  ELSE [d EXCEPT !.applied = Append(@, 2)]

\* Step 2, objectStore('bugs').deleteIndex('alias'); deleteIndex() throws
\* when the store has no such index.
DeleteAliasIndex(d) ==
  IF AliasIndex \notin d.indexes
  THEN Threw(d, "NotFoundError")
  ELSE [d EXCEPT !.indexes = @ \ {AliasIndex}, !.applied = Append(@, 2)]

\* The handler with step 1 not keyed by the previous version.
OnUpgradeNeeded_AlwaysCreate(d, oldVersion) ==
  LET created == CreateInitialStores(d)
  IN  IF created.error # "none" THEN created
      ELSE IF oldVersion < 2 THEN DeleteAliasIndex(created) ELSE created

\* onupgradeneeded(event) on the database d with event.oldVersion.
OnUpgradeNeeded(d, oldVersion) ==
  LET created == IF oldVersion < 1 THEN CreateInitialStores(d) ELSE d
  IN  IF created.error # "none" THEN created
      ELSE IF oldVersion < 2 THEN DeleteAliasIndex(created) ELSE created

\* open_database(name, version): the upgrade handler runs when the recorded
\* version is lower; when it throws the upgrade is rolled back.
OpenDatabase(d, version) ==
  IF d.version >= version THEN [d EXCEPT !.error = "none"]
  ELSE LET upgraded == OnUpgradeNeeded([d EXCEPT !.error = "none"], d.version)
       IN  IF upgraded.error # "none" THEN Threw(d, upgraded.error)
           ELSE [upgraded EXCEPT !.version = version]

Opened(d, version) == [d EXCEPT !.path = Append(@, version)]

\* load()
Load ==
  /\ Len(db.path) < MaxOpens
  /\ db' = Opened(OpenDatabase(db, 2), 2)
  /\ UNCHANGED <<attVars, coll, view, render, page, media>>

\* The database is opened by the release of schema version 1, whose handler
\* has step 1 only.
LoadVersion1 ==
  /\ Len(db.path) < MaxOpens
  /\ db.version <= 1
  /\ db' = Opened(IF db.version < 1
                  THEN [CreateInitialStores(db) EXCEPT !.version = 1]
                  ELSE db, 1)
  /\ UNCHANGED <<attVars, coll, view, render, page, media>>

\* A put is refused when a unique index holds the row's value under another key.
BugPutAccepted(d, row) ==
  AliasIndex \in d.indexes =>
    ~\E other \in d.bugs : other.id # row.id /\ other.alias = row.alias

UserPutAccepted(d, row) ==
  UserIdIndex \in d.indexes =>
    ~\E other \in d.users : other.name # row.name /\ other.id = row.id

\* put(row) on the store `bugs` (key: id).
PutBug(row) ==
  /\ BugsStore \in db.stores
  /\ BugPutAccepted(db, row)
  /\ db' = [db EXCEPT !.bugs = {b \in @ : b.id # row.id} \cup {row}]
  /\ UNCHANGED <<attVars, coll, view, render, page, media>>

\* put(row) on the store `users` (key: name).
PutUser(row) ==
  /\ UsersStore \in db.stores
  /\ UserPutAccepted(db, row)
  /\ db' = [db EXCEPT !.users = {u \in @ : u.name # row.name} \cup {row}]
  /\ UNCHANGED <<attVars, coll, view, render, page, media>>

\* put(row) on the store `prefs` (key: name).
PutPref(row) ==
  /\ PrefsStore \in db.stores
  /\ db' = [db EXCEPT !.prefs = {q \in @ : q.name # row.name} \cup {row}]
  /\ UNCHANGED <<attVars, coll, view, render, page, media>>

InitDB == AttIdle /\ coll = CollNew /\ db = NoDatabase /\ view = NoView /\ UiIdle

NextDB ==
  \/ Load
  \/ LoadVersion1
  \/ \E row \in BugRows : PutBug(row)
  \/ \E row \in UserRows : PutUser(row)
  \/ \E row \in PrefRows : PutPref(row)

SpecDB == InitDB /\ [][NextDB]_vars

\* ------------------------------------------------------------ BugTimelineView
\* The view's constructor.  A Bug's comments, attachments and history are
\* sequences of creation-time strings; an item is named by its kind and its
\* position in its array.  A Map is a sequence of [time, parts] in insertion
\* order, the inner Map `parts` a sequence of [kind, n] in insertion order.
MaxItems == 2

TimeStrings ==
  {"1970-01-01T00:00:01Z", "1970-01-01T00:00:02Z", "1970-01-01T00:00:03Z"}

\* get_time: (new Date(str)).getTime(), in milliseconds.
GetTime(str) ==
  CASE str = "1970-01-01T00:00:01Z" -> 1000
    [] str = "1970-01-01T00:00:02Z" -> 2000
    [] str = "1970-01-01T00:00:03Z" -> 3000

\* `undefined` where a time in milliseconds is expected (last_comment_time).
NoTime == -1

MapHas(m, t) == \E k \in DOMAIN m : m[k].time = t

MapIndex(m, t) == CHOOSE k \in DOMAIN m : m[k].time = t

\* A Map whose set() adds an entry whether or not the key is there.
MapSet_Append(m, t, parts) ==
  Append(m, [time |-> t, parts |-> parts, rendering |-> FALSE])

\* Map.prototype.set on the outer Map: an existing key keeps its place.
MapSet(m, t, parts) ==
  IF MapHas(m, t)
  THEN [m EXCEPT ![MapIndex(m, t)].parts = parts]
  ELSE Append(m, [time |-> t, parts |-> parts, rendering |-> FALSE])

\* An inner Map whose set() puts a new key in front.
PartsSet_InFront(parts, kind, n) ==
  IF \E k \in DOMAIN parts : parts[k].kind = kind
  THEN [k \in DOMAIN parts |->
          IF parts[k].kind = kind THEN [kind |-> kind, n |-> n] ELSE parts[k]]
  ELSE <<[kind |-> kind, n |-> n]>> \o parts

\* Map.prototype.set on the inner Map: an existing key keeps its place and
\* gets the new value, a new key goes last.
PartsSet(parts, kind, n) ==
  IF \E k \in DOMAIN parts : parts[k].kind = kind
  THEN [k \in DOMAIN parts |->
          IF parts[k].kind = kind THEN [kind |-> kind, n |-> n] ELSE parts[k]]
  ELSE Append(parts, [kind |-> kind, n |-> n])

\* new Map(comments.map(comment => [time, new Map([['comment', comment]])])),
\* for the first k comments.
RECURSIVE CommentEntries(_, _)
CommentEntries(comments, k) ==
  IF k = 0 THEN <<>>
  ELSE MapSet(CommentEntries(comments, k - 1), GetTime(comments[k]),
              <<[kind |-> "comment", n |-> k]>>)

\* The loop over bug.attachments, for the first k attachments:
\* entries.get(time) is undefined when no comment has the time, and
\* .set() on it throws.
RECURSIVE WithAttachments(_, _, _)
WithAttachments(m, attachments, k) ==
  IF k = 0 THEN [threw |-> FALSE, map |-> m]
  ELSE LET before == WithAttachments(m, attachments, k - 1)
           t == GetTime(attachments[k])
       IN  IF before.threw THEN before
           ELSE IF ~MapHas(before.map, t) THEN [before EXCEPT !.threw = TRUE]
           ELSE [before EXCEPT !.map[MapIndex(before.map, t)].parts =
                                  PartsSet(@, "attachment", k)]

\* The loop over bug.history, for the first k history entries.
RECURSIVE WithHistory(_, _, _)
WithHistory(m, history, k) ==
  IF k = 0 THEN m
  ELSE LET before == WithHistory(m, history, k - 1)
           t == GetTime(history[k])
       IN  IF MapHas(before, t)
           THEN [before EXCEPT ![MapIndex(before, t)].parts =
                                 PartsSet(@, "history", k)]
           ELSE MapSet(before, t, <<[kind |-> "history", n |-> k]>>)

\* The entries in increasing order of time.
RECURSIVE ByTime(_)
ByTime(m) ==
  IF m = <<>> THEN <<>>
  ELSE LET first == CHOOSE k \in DOMAIN m : \A j \in DOMAIN m : m[k].time <= m[j].time
       IN  <<m[first]>> \o
           ByTime([k \in 1 .. Len(m) - 1 |-> IF k < first THEN m[k] ELSE m[k + 1]])

\* [...entries].sort((a, b) => a[0] > b[0]): the comparator returns true or
\* false, never a negative number, so it is not a consistent comparator and
\* the order is implementation-defined.  An insertion or merge sort that
\* moves an element while the comparator is positive sorts by time; a sort
\* that looks for a negative result (TimSort) leaves the array as it is.
SortOutcomes(m) == {ByTime(m), m}

\* The first loop without the test of `delayed`.
RECURSIVE Collapsed_IgnoreDelayed(_, _, _, _)
Collapsed_IgnoreDelayed(m, k, delayed, lastVisit) ==
  IF k = 0 THEN [map |-> m, read |-> 0, lastCommentTime |-> NoTime]
  ELSE LET before == Collapsed_IgnoreDelayed(m, k - 1, delayed, lastVisit)
           isRead == /\ lastVisit # Undefined
                     /\ m[k].time < GetTime(lastVisit)
           hasComment == \E j \in DOMAIN m[k].parts : m[k].parts[j].kind = "comment"
       IN  IF isRead
           THEN IF hasComment
                THEN [before EXCEPT !.read = @ + 1, !.lastCommentTime = m[k].time]
                ELSE before
           ELSE [before EXCEPT !.map[k].rendering = TRUE]

\* The first loop over this.entries, for its first k entries: the entries
\* before the last visit are not marked for rendering, and the comments
\* among them are counted.
RECURSIVE Collapsed(_, _, _, _)
Collapsed(m, k, delayed, lastVisit) ==
  IF k = 0 THEN [map |-> m, read |-> 0, lastCommentTime |-> NoTime]
  ELSE LET before == Collapsed(m, k - 1, delayed, lastVisit)
           isRead == /\ ~delayed /\ lastVisit # Undefined
                     /\ m[k].time < GetTime(lastVisit)
           hasComment == \E j \in DOMAIN m[k].parts : m[k].parts[j].kind = "comment"
       IN  IF isRead
           THEN IF hasComment
                THEN [before EXCEPT !.read = @ + 1, !.lastCommentTime = m[k].time]
                ELSE before
           ELSE [before EXCEPT !.map[k].rendering = TRUE]

\* data_arr: the entries marked for rendering, and those at or after the
\* last read comment (a comparison with undefined is false).
RECURSIVE DataArr(_, _, _)
DataArr(m, k, lastCommentTime) ==
  IF k = 0 THEN <<>>
  ELSE LET before == DataArr(m, k - 1, lastCommentTime)
       IN  IF m[k].rendering
              \/ (lastCommentTime # NoTime /\ m[k].time >= lastCommentTime)
           THEN Append(before, m[k].time)
           ELSE before

\* The constructor rendering the marked entries only.
Built_RenderingOnly(v, sorted) ==
  LET marked == Collapsed(sorted, Len(sorted), v.delayed, v.lastVisit)
  IN  [v EXCEPT !.state = "built",
                !.entries = marked.map,
                !.dataArr = DataArr(marked.map, Len(sorted), NoTime),
                !.readComments = marked.read,
                !.expander = IF marked.read > 1 THEN marked.read - 1 ELSE 0]

\* The view after the constructor ran to its end on the sorted entries.
Built(v, sorted) ==
  LET marked == Collapsed(sorted, Len(sorted), v.delayed, v.lastVisit)
  IN  [v EXCEPT !.state = "built",
                !.entries = marked.map,
                !.dataArr = DataArr(marked.map, Len(sorted), marked.lastCommentTime),
                !.readComments = marked.read,
                !.expander = IF marked.read > 1 THEN marked.read - 1 ELSE 0]

\* The records of the initial batch: those whose time is in data_arr.
InitialBatch(v) ==
  {k \in DOMAIN v.entries : \E j \in DOMAIN v.dataArr : v.dataArr[j] = v.entries[k].time}

\* The rendering as the constructor leaves it: generate_entries(data_arr) is
\* called and awaited by nobody, and the expander is in the view when there
\* are read comments to announce.
Started(v) ==
  IF v.state # "built" THEN NoRender
  ELSE [flags |-> [k \in DOMAIN v.entries |->
                     [rendering |-> v.entries[k].rendering, rendered |-> FALSE]],
        passes |-> [k \in DOMAIN v.entries |-> IF k \in InitialBatch(v) THEN 1 ELSE 0],
        batches |-> {[click |-> 0, recs |-> InitialBatch(v)]},
        expander |-> IF v.expander > 0 THEN "shown" ELSE "none",
        clicks |-> 0, threw |-> FALSE]

\* new BugTimelineView(id, bug, $bug, delayed)
Construct(comments, attachments, history, delayed, lastVisit) ==
  /\ view.state = "none"
  /\ LET v == [view EXCEPT !.comments = comments, !.attachments = attachments,
                           !.history = history, !.delayed = delayed,
                           !.lastVisit = lastVisit]
         merged == WithAttachments(CommentEntries(comments, Len(comments)),
                                   attachments, Len(attachments))
     IN  IF merged.threw
         THEN view' = [v EXCEPT !.state = "threw"]
         ELSE \E sorted \in SortOutcomes(WithHistory(merged.map, history, Len(history))) :
                view' = Built(v, sorted)
  /\ render' = Started(view')
  /\ UNCHANGED <<attVars, coll, db, page, media>>

TimeLists == SeqsUpTo(TimeStrings, MaxItems)

InitTimeline == AttIdle /\ coll = CollNew /\ db = NoDatabase /\ view = NoView /\ UiIdle

\* The view is constructed once, from any Bug.
NextTimeline ==
  /\ view.state = "none"
  /\ \E comments \in TimeLists, attachments \in TimeLists, history \in TimeLists,
        delayed \in BOOLEAN, lastVisit \in TimeStrings \cup {Undefined} :
       Construct(comments, attachments, history, delayed, lastVisit)

SpecTimeline == InitTimeline /\ [][NextTimeline]_vars

\* ------------------------------------------------------------ on_pref_changed
\* The media containers of a timeline: `hasMedia` says that the attachment's
\* element holds an img, audio or video, `src` that the media has a source,
\* `busy` is the aria-busy flag of the container.  A job is one run of the
\* handler's async function for an element; `last` is the argument of the
\* latest call of the handler.
MaxChanges == 2
MediaIds == {1, 2}

InlinePref == "ui.timeline.display_attachments_inline"
PrefNames == {InlinePref, "ui.theme.selected"}

Elems ==
  {[hasMedia |-> FALSE, src |-> FALSE, busy |-> FALSE],
   [hasMedia |-> TRUE, src |-> FALSE, busy |-> FALSE],
   [hasMedia |-> TRUE, src |-> TRUE, busy |-> FALSE]}

\* name !== 'ui.timeline.display_attachments_inline' || value !== true
Ignored(name, value) == name # InlinePref \/ value # TRUE

\* if ($media && !$media.src)
NeedsMedia(elem) == elem.hasMedia /\ ~elem.src

\* on_pref_changed({ name, value }): every element whose media has no source
\* is marked busy and its async function starts, up to its first await.
OnPrefChanged(name, value) ==
  /\ media.state = "shown"
  /\ media.changes < MaxChanges
  /\ media' =
       IF Ignored(name, value)
       THEN [media EXCEPT !.changes = @ + 1,
                          !.last = [name |-> name, value |-> value]]
       ELSE [media EXCEPT
              !.changes = @ + 1,
              !.last = [name |-> name, value |-> value],
              !.elems = [m \in DOMAIN @ |->
                           IF NeedsMedia(@[m]) THEN [@[m] EXCEPT !.busy = TRUE] ELSE @[m]],
              !.jobs = @ \cup {[elem |-> m, change |-> media.changes + 1, pc |-> "get"] :
                                 m \in {e \in DOMAIN media.elems : NeedsMedia(media.elems[e])}}]
  /\ UNCHANGED <<attVars, coll, db, view, render, page>>

\* await BzDeck.collections.attachments.get(att_id) resolves and
\* attachment.get_data() is called.
AttachmentGot(job) ==
  /\ job \in media.jobs /\ job.pc = "get"
  /\ media' = [media EXCEPT !.jobs = (@ \ {job}) \cup {[job EXCEPT !.pc = "get_data"]}]
  /\ UNCHANGED <<attVars, coll, db, view, render, page>>

\* get_data() resolves: the media gets its source and the container is no
\* longer busy.
MediaLoaded(job) ==
  /\ job \in media.jobs /\ job.pc = "get_data"
  /\ media' = [media EXCEPT !.jobs = @ \ {job},
                            !.elems[job.elem].src = TRUE,
                            !.elems[job.elem].busy = FALSE]
  /\ UNCHANGED <<attVars, coll, db, view, render, page>>

\* get_data() rejects: the async function has no catch, its promise rejects
\* and the rest of the function does not run.
MediaFailed(job) ==
  /\ job \in media.jobs /\ job.pc = "get_data"
  /\ media' = [media EXCEPT !.jobs = @ \ {job}]
  /\ UNCHANGED <<attVars, coll, db, view, render, page>>

InitPref ==
  /\ AttIdle /\ coll = CollNew /\ db = NoDatabase /\ view = NoView
  /\ render = NoRender /\ page = NoPage
  /\ media \in [state : {"shown"}, elems : [MediaIds -> Elems],
                 jobs : {{}}, changes : {0}, last : {NoMedia.last}]

NextPref ==
  \/ \E name \in PrefNames, value \in BOOLEAN : OnPrefChanged(name, value)
  \/ \E job \in media.jobs : AttachmentGot(job)
  \/ \E job \in media.jobs : MediaLoaded(job)
  \/ \E job \in media.jobs : MediaFailed(job)

\* Every awaited promise settles: a job at an await goes on, one way or the
\* other.
SpecPref ==
  InitPref /\ [][NextPref]_vars
    /\ WF_vars(\E job \in media.jobs : AttachmentGot(job))
    /\ WF_vars(\E job \in media.jobs : MediaLoaded(job) \/ MediaFailed(job))

\* ------------------------------------------------------------ ProfilePage
\* BzDeck.views.ProfilePage(name): the panel's aria-busy flag, the text of
\* the status area, the promise chain on fetch_user() and the Gravatar
\* profile request made by the success handler.
AccountName == "me@example.com"
ProfileNames == {AccountName, "ann@example.com", "bob@example.com"}
RealNames == {"", "Ann Bee"}
ErrorMessages == {"Network error", "The user could not be found."}

\* What fetch_user(name) settles with: a user, or an error with a message.
FetchUserResults(name) ==
  {[ok |-> TRUE, user |-> [name |-> name, real_name |-> rn, id |-> i], message |-> "none"] :
     rn \in RealNames, i \in {1, 2}}
    \cup {[ok |-> FALSE, user |-> [name |-> name, real_name |-> "", id |-> 0],
           message |-> msg] : msg \in ErrorMessages}

\* What gravatar.get_profile() settles with.
GravatarResults == {"background", "plain", "rejected"}

\* ProfilePage(name): up to the call of fetch_user(name).
ProfilePage(name) ==
  /\ page.pc = "none"
  /\ page' = [page EXCEPT !.pc = "fetch_user", !.name = name,
                          !.self = (name = AccountName),
                          !.busy = TRUE, !.status = "Loading..."]
  /\ UNCHANGED <<attVars, coll, db, view, render, media>>

\* user.real_name || user.name
DisplayName(user) == IF user.real_name # "" THEN user.real_name ELSE user.name

\* fetch_user() settles: the success handler renders the user (`title` is
\* the name put after 'User Profile: ', `profileId` the id put after
\* 'profile-') and asks for the Gravatar profile, or the catch handler shows
\* the error's message.
FetchUserSettles(result) ==
  /\ page.pc = "fetch_user"
  /\ page' = IF result.ok
              THEN [page EXCEPT !.pc = "chained",
                                !.title = DisplayName(result.user),
                                !.profileId = result.user.id,
                                !.gravatar = "pending"]
              ELSE [page EXCEPT !.pc = "chained", !.failed = TRUE,
                                !.message = result.message,
                                !.status = result.message]
  /\ UNCHANGED <<attVars, coll, db, view, render, media>>

\* .then(() => { removeAttribute('aria-busy'); $status.textContent = ''; })
LastHandler(pg) == [pg EXCEPT !.pc = "done", !.busy = FALSE, !.status = ""]

\* The last handler of the chain runs, after either outcome.
LoadFinished ==
  /\ page.pc = "chained"
  /\ page' = LastHandler(page)
  /\ UNCHANGED <<attVars, coll, db, view, render, media>>

\* gravatar.get_profile() settles; nobody handles its rejection.
GravatarSettles(outcome) ==
  /\ page.gravatar = "pending"
  /\ page' = [page EXCEPT !.gravatar = outcome,
                          !.background = IF outcome = "background" THEN "url" ELSE @]
  /\ UNCHANGED <<attVars, coll, db, view, render, media>>

InitProfile ==
  AttIdle /\ coll = CollNew /\ db = NoDatabase /\ view = NoView /\ UiIdle

NextProfile ==
  \/ \E name \in ProfileNames : ProfilePage(name)
  \/ \E result \in FetchUserResults(page.name) : FetchUserSettles(result)
  \/ LoadFinished
  \/ \E outcome \in GravatarResults : GravatarSettles(outcome)

SpecProfile == InitProfile /\ [][NextProfile]_vars

\* ------------------------------------------------------------ rendering
\* The asynchronous rendering of a built view: the batches handed to
\* generate_entries() that have not finished, and the activations of the
\* expander (a click, expand_comments() or on_history_updated()).
MaxClicks == 2

\* An expander that takes the records marked for rendering only.
ExpansionBatch_Marked(r) == {k \in DOMAIN r.flags : r.flags[k].rendering}

\* for (const [time, data] of this.entries) if (!data.get('rendered'))
ExpansionBatch(r) == {k \in DOMAIN r.flags : ~r.flags[k].rendered}

\* The expander is an element of the view and this.$expander is set.
ExpanderThere(r) == r.expander \in {"shown", "loading"}

\* The expander's listener runs: the records not yet rendered are handed to
\* generate_entries().
Activate ==
  /\ ExpanderThere(render)
  /\ render.clicks < MaxClicks
  /\ LET batch == ExpansionBatch(render)
     IN  render' = [render EXCEPT
           !.expander = "loading",
           !.clicks = @ + 1,
           !.passes = [k \in DOMAIN @ |-> IF k \in batch THEN @[k] + 1 ELSE @[k]],
           !.batches = @ \cup {[click |-> render.clicks + 1, recs |-> batch]}]
  /\ UNCHANGED <<attVars, coll, db, view, page, media>>

\* generate_entries(): after the await every entry of the batch loses
\* `rendering` and gets `rendered`.
Generated(r, batch) ==
  [r EXCEPT !.flags = [k \in DOMAIN @ |->
                         IF k \in batch.recs
                         THEN [rendering |-> FALSE, rendered |-> TRUE]
                         ELSE @[k]],
            !.batches = @ \ {batch}]

\* The batch's generate_entries() resolves and its caller goes on: the
\* initial batch is appended; an expansion batch replaces the expander, and
\* replaceChild() throws when the expander is no child of the wrapper any
\* more.
GenerateDone(batch) ==
  /\ batch \in render.batches
  /\ LET r == Generated(render, batch)
     IN  render' = IF batch.click = 0 THEN r
                   ELSE IF ExpanderThere(r) THEN [r EXCEPT !.expander = "removed"]
                   ELSE [r EXCEPT !.threw = TRUE]
  /\ UNCHANGED <<attVars, coll, db, view, page, media>>

NextRender ==
  \/ /\ view.state = "none"
     /\ \E comments \in TimeLists, history \in TimeLists, lastVisit \in TimeStrings :
          Construct(comments, <<>>, history, FALSE, lastVisit)
  \/ Activate
  \/ \E batch \in render.batches : GenerateDone(batch)

\* Every call of generate_entries() returns in the end; nobody has to
\* activate the expander.
SpecRender ==
  InitTimeline /\ [][NextRender]_vars
    /\ WF_vars(\E batch \in render.batches : GenerateDone(batch))

\* ------------------------------------------------------------ claims
HasPayload(record) == record.def /\ Truthy(record.data)

DecodeSent(c) == calls[c].msgStr # "none"

\* C1: a get_data() called while the payload is present issues no request
\* and goes straight to the decode step.
C1_PresentPayloadSkipsNetwork ==
  \A c \in Calls :
    (calls[c].op = "get_data" /\ calls[c].had) =>
      /\ calls[c].nreq = 0
      /\ calls[c].msgStr \in Payloads
      /\ calls[c].pc \in {"decode", "settled", "hung"}
      /\ calls[c].outcome # "rejected"

\* A first get_data() fetched the payload; a second one found it present and
\* is decoding without a request of its own.
C1_Witness ==
  \E c1, c2 \in Calls :
    /\ c1 < c2
    /\ calls[c1].op = "get_data" /\ calls[c1].nreq = 1 /\ DecodeSent(c1)
    /\ calls[c2].op = "get_data" /\ calls[c2].had
    /\ calls[c2].nreq = 0 /\ calls[c2].pc = "decode"

\* C2: the decode message of a get_data() that fetched the payload is never
\* out while the save() that persists the payload has not finished.
C2_DecodeOnlyAfterPersisted ==
  \A c \in Calls :
    (calls[c].op = "get_data" /\ calls[c].nreq = 1 /\ DecodeSent(c)) =>
      calls[c].sv # "bugs_get"

\* C3: a payload request that resolves without a payload for this id makes
\* get_data() reject as AttachmentUnavailable, with no decode message sent.
C3_NoPayloadRejects ==
  \A c \in Calls :
    (last.call = c /\ calls[c].op = "get_data" /\ last.ok /\ ~HasPayload(last.got)) =>
      /\ calls[c].pc = "settled"
      /\ calls[c].outcome = "rejected"
      /\ calls[c].error = AttachmentUnavailable
      /\ ~DecodeSent(c)

\* The response omitted this id and get_data() has rejected.
C3_Witness ==
  \E c \in Calls :
    /\ last.call = c /\ calls[c].op = "get_data" /\ last.ok /\ ~last.got.def
    /\ calls[c].outcome = "rejected"

\* C4: the steps of a get_data() that rejects write nothing: the start of
\* the call and the rejecting step leave the model's data, the collection,
\* the parent Bug and the Local Store as they are, no save() and no decode
\* was started, and unless another call changed the data meanwhile the
\* payload is still absent.
C4_RejectedGetDataWritesNothing ==
  [][\A c \in Calls :
       /\ (calls[c].pc = "idle" /\ calls'[c].op = "get_data") =>
            UNCHANGED <<data, attColl, bugs, store, writes>>
       /\ (calls'[c].op = "get_data" /\ calls[c].outcome = "pending"
             /\ calls'[c].outcome = "rejected") =>
            /\ UNCHANGED <<data, attColl, bugs, store, writes>>
            /\ calls'[c].sv = "none"
            /\ calls'[c].msgStr = "none"
            /\ (~calls[c].stale => ~HasPayload(data'))]_vars

\* A payload request resolved without payload, the call rejected and the
\* payload is still absent.
C4_Witness ==
  \E c \in Calls :
    /\ last.call = c /\ calls[c].op = "get_data" /\ last.ok
    /\ calls[c].outcome = "rejected" /\ ~calls[c].stale
    /\ data.def /\ ~Truthy(data.data) /\ attColl = data

\* The parent Bug is cached with a data-less stub of this attachment.
HasStub(bug) ==
  /\ HasAttachments(bug)
  /\ \E i \in DOMAIN bug.attachments : NeedsData(bug.attachments[i])

\* Every entry of this attachment in the Bug holds a payload, and there is one.
HasData(bug) ==
  /\ HasAttachments(bug)
  /\ \E i \in DOMAIN bug.attachments : bug.attachments[i].id = id
  /\ \A i \in DOMAIN bug.attachments :
       bug.attachments[i].id = id => Truthy(bug.attachments[i].data)

\* C5: when a save() of an Attachment with a payload resolves, with the
\* parent Bug cached with a data-less stub, the stored parent Bug has the payload.
C5_SaveResolvesAfterParentPersisted ==
  [][\A c \in Calls :
       (/\ calls[c].op = "save" /\ calls[c].outcome = "pending"
        /\ calls'[c].outcome = "resolved"
        /\ HasPayload(data)
        /\ HasStub(BugsGet(calls[c].svBug))) =>
          HasData(store'[calls[c].svBug])]_vars

\* A save() (called directly or by get_data()) resolves in this step.
SaveResolves(c) == calls[c].sv = "bugs_get" /\ calls'[c].sv = "resolved"

\* C6 as stated: after save() of a model that holds a payload, every entry
\* of this attachment in the parent Bug holds the model's data, whatever it
\* held before.
C6_AllEntriesEqualModel ==
  [][\A c \in Calls :
       (SaveResolves(c) /\ HasPayload(data)) =>
         \A i \in DOMAIN bugs'[calls[c].svBug].attachments :
           bugs'[calls[c].svBug].attachments[i].id = id =>
             bugs'[calls[c].svBug].attachments[i].data = data'.data]_vars

\* C6, amended: after save() every entry of this attachment that held no
\* data holds the model's data; an entry that held a payload keeps it, as
\* does every entry of another attachment, and the list keeps its length.
C6_StubEntriesFilled ==
  [][\A c \in Calls :
       SaveResolves(c) =>
         LET old == bugs[calls[c].svBug].attachments
             new == bugs'[calls[c].svBug].attachments
         IN  /\ Len(new) = Len(old)
             /\ \A i \in DOMAIN old :
                  new[i] = IF old[i].id = id /\ old[i].data \in {Undefined, ""}
                           THEN [id |-> old[i].id, data |-> data.data]
                           ELSE old[i]]_vars

\* A save() has resolved and an entry of this attachment that the store
\* still holds as a stub now has the model's payload in the cached Bug.
C6_Witness ==
  \E c \in Calls, b \in BugIds :
    /\ calls[c].sv = "resolved"
    /\ HasPayload(data)
    /\ bugs[b].def /\ store[b].def
    /\ \E i \in DOMAIN bugs[b].attachments :
         /\ bugs[b].attachments[i] = [id |-> id, data |-> data.data]
         /\ i \in DOMAIN store[b].attachments
         /\ store[b].attachments[i] = [id |-> id, data |-> Undefined]

\* C7: a fetch() that resolves has issued one request for this id, without
\* a query, and the model's data is the record the server sent under this id.
C7_FetchReplacesData ==
  \A c \in Calls :
    (last.call = c /\ calls[c].op = "fetch" /\ calls[c].outcome = "resolved") =>
      /\ calls[c].nreq = 1
      /\ calls[c].path = id
      /\ calls[c].query = FullQuery
      /\ last.ok
      /\ data = last.got

\* A fetch() resolved with a record of the server that differs from the
\* data the model was constructed from.
C7_Witness ==
  \E c \in Calls :
    /\ last.call = c /\ calls[c].op = "fetch" /\ calls[c].outcome = "resolved"
    /\ last.got.def /\ data = last.got /\ data # attColl

\* C8: a fetch() whose request fails, or whose response has no record for
\* this id, rejects (RemoteUnavailable).
C8_FetchRejectsWithoutRecord ==
  \A c \in Calls :
    (last.call = c /\ calls[c].op = "fetch" /\ (~last.ok \/ ~last.got.def)) =>
      /\ calls[c].outcome = "rejected"
      /\ calls[c].error = RequestFailed

\* A fetch() whose request fails, or whose response omits this id, settles in this step.
FetchFails(c) ==
  /\ calls[c].op = "fetch" /\ calls[c].pc = "request"
  /\ calls'[c].pc = "settled" /\ last'.call = c
  /\ (~last'.ok \/ ~last'.got.def)

\* C9: a fetch() that fails leaves the model's data as it was.
C9_FailedFetchKeepsData ==
  [][\A c \in Calls : FetchFails(c) => data' = data]_vars

\* C10: the response of a request during whose flight the model's data
\* changed, arriving with a record of this attachment, does not change the
\* data the model holds when it is applied.
C10_LateResponseKeepsNewerData ==
  [][\A c \in Calls :
       (/\ calls[c].pc = "request" /\ calls[c].stale /\ data.def
        /\ calls'[c].pc # "request"
        /\ last'.call = c /\ last'.ok /\ last'.got.def) =>
         data' = data]_vars

\* C11: between the steps of a get_data() that fetched the payload, the model
\* and the Attachment Collection never hold the payload while the cached
\* parent Bug still has a data-less stub of this attachment.
C11_PayloadAndParentCopyTogether ==
  \A c \in Calls :
    (/\ calls[c].op = "get_data" /\ calls[c].nreq = 1
     /\ calls[c].sv = "bugs_get"
     /\ HasPayload(data) /\ HasPayload(attColl)) =>
       ~HasStub(BugsGet(calls[c].svBug))

\* The oldest pending write of a Bug fails in this step: it leaves the queue
\* and the store does not get its value.
WriteFails ==
  /\ writes # <<>>
  /\ writes' = Tail(writes)
  /\ store' = store
  /\ store[Head(writes).key] # Head(writes).val

\* C12: when the store write of a parent Bug fails, no save() of that Bug
\* (called directly or by get_data()) has resolved, and no get_data() that
\* called it has resolved.
C12_StoreFailureRejectsCaller ==
  [][WriteFails =>
       \A c \in Calls :
         (calls[c].svBug = Head(writes).key /\ calls[c].op \in {"save", "get_data"}) =>
           /\ calls[c].sv # "resolved"
           /\ calls[c].outcome # "resolved"]_vars

\* C13: a get_data() rejects as AttachmentUnavailable only when its request
\* resolved (without a payload): a failed request gives another outcome.
C13_FailureKindsDistinct ==
  \A c \in Calls :
    (/\ last.call = c /\ calls[c].op = "get_data"
     /\ calls[c].outcome = "rejected" /\ calls[c].nreq = 1) =>
       (calls[c].error = AttachmentUnavailable <=> last.ok)

\* C14: all get(id) and get_many() calls on one Collection hand out the same
\* instance for the same id, and the collection never holds two instances
\* of one id.
C14_OneInstancePerId ==
  /\ \A m, n \in DOMAIN coll.returned :
       coll.returned[m][1] = coll.returned[n][1] =>
         coll.returned[m][2] = coll.returned[n][2]
  /\ \A g, h \in DOMAIN coll.insts :
       coll.insts[g].id = coll.insts[h].id => g = h
  /\ \A n \in DOMAIN coll.returned :
       /\ coll.returned[n][2] \in DOMAIN coll.insts
       /\ coll.insts[coll.returned[n][2]].id = coll.returned[n][1]
       /\ coll.map[coll.returned[n][1]] = coll.returned[n][2]

\* Bug 42 was handed out twice, with a set(42, ...) on the collection too,
\* after another id got an instance of its own.
C14_Witness ==
  /\ \E m, n \in DOMAIN coll.returned :
       m < n /\ coll.returned[m][1] = 42 /\ coll.returned[n][1] = 42
  /\ coll.stored[42] # Undefined
  /\ Len(coll.insts) >= 2

Schema(d) == [stores |-> d.stores, indexes |-> d.indexes]

\* C15: a database at version 2 has the schema that one open from version 0
\* to version 2 produces, whether or not it went through version 1: the
\* stores bugs, users and prefs, the unique id index on users and no alias
\* index on bugs.
C15_MigrationPathsAgree ==
  db.version = 2 =>
    /\ Schema(db) = Schema(OpenDatabase(NoDatabase, 2))
    /\ {st.name : st \in db.stores} = {"bugs", "users", "prefs"}
    /\ Cardinality(db.stores) = 3
    /\ \E ix \in db.indexes : ix.store = "users" /\ ix.name = "id" /\ ix.unique
    /\ ~\E ix \in db.indexes : ix.store = "bugs" /\ ix.name = "alias"

\* The database went from 0 to 1 and then from 1 to 2.
C15_Witness ==
  /\ db.version = 2
  /\ Len(db.path) >= 2 /\ db.path[1] = 1 /\ db.path[2] = 2

StepsAbove(v) == IF v < 1 THEN <<1, 2>> ELSE IF v < 2 THEN <<2>> ELSE <<>>

\* C16: an open at version 2 of a database of version v applies the steps
\* above v, in increasing order, and over all opens no step is applied twice.
C16_StepsOnceInOrder ==
  [][(Len(db'.path) = Len(db.path) + 1 /\ db'.path[Len(db'.path)] = 2) =>
       /\ db'.applied = db.applied \o StepsAbove(db.version)
       /\ db'.version = 2
       /\ \A m, n \in DOMAIN db'.applied : m < n => db'.applied[m] < db'.applied[n]]_vars

\* The database was opened at version 1, at version 2 and at version 2 again.
C16_Witness ==
  /\ db.path = <<1, 2, 2>>
  /\ db.applied = <<1, 2>>

\* C17: after load() the schema is bugs keyed by id, users keyed by name
\* with a unique index on id, prefs keyed by name and nothing else, and a
\* bug is stored whatever alias the other stored bugs carry.
C17_LoadedSchema ==
  (db.path # <<>> /\ db.path[Len(db.path)] = 2) =>
    /\ db.stores = {BugsStore, UsersStore, PrefsStore}
    /\ db.indexes = {UserIdIndex}
    /\ \A row \in BugRows : BugPutAccepted(db, row)

\* After a load() of a version-1 database two stored bugs carry one alias.
C17_Witness ==
  /\ db.path # <<>> /\ db.path[Len(db.path)] = 2 /\ db.path[1] = 1
  /\ \E b1, b2 \in db.bugs : b1.id # b2.id /\ b1.alias = b2.alias

\* C18: the entries of a built timeline are in strictly increasing order of
\* their timestamps.
C18_TimelineStrictlyOrdered ==
  view.state = "built" =>
    \A k \in 1 .. Len(view.entries) - 1 :
      view.entries[k].time < view.entries[k + 1].time

KindRank(kind) ==
  CASE kind = "comment" -> 1 [] kind = "attachment" -> 2 [] kind = "history" -> 3

\* C19: the parts of every record of a built timeline come in the order
\* comment, attachment, history.
C19_PartsOrder ==
  view.state = "built" =>
    \A k \in DOMAIN view.entries :
      \A i, j \in DOMAIN view.entries[k].parts :
        i < j => KindRank(view.entries[k].parts[i].kind)
                   < KindRank(view.entries[k].parts[j].kind)

\* A record with a comment, an attachment and a history entry was built from
\* a Bug whose history and attachments arrays do not start with it.
C19_Witness ==
  /\ view.state = "built"
  /\ \E k \in DOMAIN view.entries :
       /\ Len(view.entries[k].parts) = 3
       /\ \E j \in DOMAIN view.entries[k].parts :
            view.entries[k].parts[j].kind = "history" /\ view.entries[k].parts[j].n = 2

Shown(kind, n) ==
  \E k \in DOMAIN view.entries : \E j \in DOMAIN view.entries[k].parts :
    view.entries[k].parts[j] = [kind |-> kind, n |-> n]

\* C20: the constructor never aborts, and every comment, attachment and
\* history entry of the Bug is a part of some record of the timeline.
C20_MergeComplete ==
  view.state # "none" =>
    /\ view.state = "built"
    /\ \A n \in DOMAIN view.comments : Shown("comment", n)
    /\ \A n \in DOMAIN view.attachments : Shown("attachment", n)
    /\ \A n \in DOMAIN view.history : Shown("history", n)

\* The record of time t is rendered by the constructor.
Rendered(t) == \E j \in DOMAIN view.dataArr : view.dataArr[j] = t

HasComment(k) ==
  \E j \in DOMAIN view.entries[k].parts : view.entries[k].parts[j].kind = "comment"

\* The records with a comment that lie before the last visit.
ReadComments ==
  {k \in DOMAIN view.entries :
     HasComment(k) /\ view.entries[k].time < GetTime(view.lastVisit)}

LastReadComment == CHOOSE k \in ReadComments : \A j \in ReadComments : j <= k

VisitKnown == view.state = "built" /\ ~view.delayed /\ view.lastVisit # Undefined

GetDataResolves(c) ==
  /\ calls[c].op = "get_data"
  /\ calls[c].outcome = "pending"
  /\ calls'[c].outcome = "resolved"

\* C22: a get_data() that resolves carries `text` exactly when the
\* attachment is a patch or its content type is textual; the blob is
\* returned in both cases.
C22_TextIffPatchOrTextual ==
  [][\A c \in Calls : GetDataResolves(c) =>
       /\ calls'[c].text # Undefined
            <=> (data'.is_patch \/ data'.content_type = "text/plain")
       /\ calls'[c].text # Undefined => calls'[c].text = "binary"
       /\ calls'[c].blob \in {"bytes1", "bytes2"}]_vars

\* One get_data() resolved without text for an image, with its blob.
C22_Witness ==
  /\ ~data.is_patch /\ data.content_type = "image/png"
  /\ \E c \in Calls :
       /\ calls[c].op = "get_data" /\ calls[c].outcome = "resolved"
       /\ calls[c].text = Undefined
       /\ calls[c].blob = "bytes1"

\* C23: a get_data() that reaches decoding sends one decode message, with
\* the model's payload and content type; it resolves with the worker's
\* answer to this message, and `text` is there exactly when the attachment
\* is a patch or the content type sent is textual.
C23_DecodeFromOwnMessage ==
  [][\A c \in Calls :
       /\ (calls[c].pc # "decode" /\ calls'[c].pc = "decode") =>
            /\ calls'[c].nmsg = 1
            /\ calls'[c].msgStr = data'.data
            /\ calls'[c].msgType = data'.content_type
       /\ calls'[c].nmsg <= 1
       /\ GetDataResolves(c) =>
            /\ calls'[c].blob = WorkerDecode(calls[c].msgStr)
            /\ calls'[c].text # Undefined
                 <=> (data.is_patch \/ IsTextual(calls[c].msgType))]_vars

\* C24: no call issues a second request: a fetch() has issued one request,
\* a get_data() at most one and none once it has settled without one, and a
\* call whose request has settled, resolved or rejected, has none in flight.
C24_NoRetry ==
  \A c \in Calls :
    /\ calls[c].op = "fetch" => calls[c].nreq = 1
    /\ calls[c].op = "get_data" => calls[c].nreq <= 1
    /\ calls[c].op = "save" => calls[c].nreq = 0
    /\ calls[c].pc = "request" => calls[c].outcome = "pending"
    /\ calls[c].outcome # "pending" => calls[c].pc = "settled"

\* A fetch() and a get_data() were both rejected after their one request.
C24_Witness ==
  \E c, d \in Calls :
    /\ calls[c].op = "fetch" /\ calls[c].outcome = "rejected" /\ calls[c].nreq = 1
    /\ calls[d].op = "get_data" /\ calls[d].outcome = "rejected" /\ calls[d].nreq = 1

\* The Bug `new` is the Bug `old` but for the `data` of entries of this
\* attachment.
SameButMyData(old, new) ==
  /\ new.def = old.def
  /\ new.hasAtts = old.hasAtts
  /\ new.other = old.other
  /\ Len(new.attachments) = Len(old.attachments)
  /\ \A i \in DOMAIN old.attachments :
       /\ new.attachments[i].id = old.attachments[i].id
       /\ new.attachments[i] # old.attachments[i] => old.attachments[i].id = id

\* C25: no step of save() or get_data() changes the cached or the stored
\* parent Bug but in the `data` of entries of this attachment.
C25_SaveFrame ==
  [][\A b \in BugIds :
       /\ bugs'[b] # bugs[b] => SameButMyData(bugs[b], bugs'[b])
       /\ store'[b] # store[b] => SameButMyData(store[b], store'[b])]_vars

\* A save() has filled the stub of this attachment in a Bug that also lists
\* another attachment, and the Bug was stored.
C25_Witness ==
  \E c \in Calls, b \in BugIds :
    /\ calls[c].sv = "resolved"
    /\ store[b] = bugs[b]
    /\ \E i, j \in DOMAIN store[b].attachments :
         /\ store[b].attachments[i] = [id |-> 8, data |-> Undefined]
         /\ store[b].attachments[j] = [id |-> id, data |-> "p2"]

\* C26: a save() that resolves has handed the parent Bug to the Local
\* Store, whatever the Bug's attachment list holds.
C26_ResolvedSaveHasWritten ==
  [][\A c \in Calls :
       SaveResolves(c) =>
         /\ Len(writes') = Len(writes) + 1
         /\ writes'[Len(writes')].key = calls[c].svBug]_vars

\* The get_data() call c is made in this step.
GetDataStarts(c) == calls[c].pc = "idle" /\ calls'[c].op = "get_data"

NoFetchCalled == \A d \in Calls : calls[d].op # "fetch"

\* C29: a get_data() that is made after a get_data() has resolved, with
\* every earlier call settled and no fetch() among them, issues no request
\* and decodes the payload the model holds.
C29_LaterCallsServedFromModel ==
  [][\A c \in Calls :
       (/\ GetDataStarts(c)
        /\ NoFetchCalled
        /\ \A d \in Calls : d # c => calls[d].pc \in {"idle", "settled"}
        /\ \E d \in Calls : calls[d].op = "get_data" /\ calls[d].outcome = "resolved") =>
          /\ calls'[c].nreq = 0
          /\ calls'[c].pc = "decode"
          /\ calls'[c].msgStr = data.data
          /\ HasPayload(data)]_vars

\* A first get_data() fetched the payload and resolved; a second one, made
\* after it, resolved without a request.
C29_Witness ==
  \E c1, c2 \in Calls :
    /\ c1 < c2
    /\ NoFetchCalled
    /\ calls[c1].op = "get_data" /\ calls[c1].nreq = 1 /\ calls[c1].outcome = "resolved"
    /\ calls[c2].op = "get_data" /\ calls[c2].nreq = 0 /\ calls[c2].outcome = "resolved"
    /\ calls[c2].msgStr = calls[c1].msgStr

\* C30: a get_data() made while the request of another get_data() is in
\* flight issues no request of its own, and a get_data() whose request was
\* overtaken by the response of another one starts no second persistence.
C30_OverlappingCallsShareRequest ==
  [][\A c \in Calls :
       /\ (/\ GetDataStarts(c)
           /\ \E d \in Calls : calls[d].op = "get_data" /\ calls[d].pc = "request") =>
             calls'[c].nreq = 0
       /\ (/\ calls[c].op = "get_data" /\ calls[c].pc = "request"
           /\ calls[c].stale /\ NoFetchCalled) =>
             calls'[c].sv = "none"]_vars

\* load() runs on a database of version 1 in this step.
UpgradeFrom1 ==
  /\ db.version = 1
  /\ Len(db'.path) = Len(db.path) + 1
  /\ db'.path[Len(db'.path)] = 2

\* C27: the upgrade from version 1 to version 2 keeps the stores and every
\* row of bugs, users and prefs; it removes the alias index of bugs and
\* nothing else.
C27_UpgradeKeepsRows ==
  [][UpgradeFrom1 =>
       /\ db'.version = 2
       /\ db'.stores = db.stores
       /\ db'.bugs = db.bugs /\ db'.users = db.users /\ db'.prefs = db.prefs
       /\ AliasIndex \in db.indexes
       /\ db'.indexes = db.indexes \ {AliasIndex}]_vars

\* A version-1 database with a row in each store was upgraded by load().
C27_Witness ==
  /\ db.version = 2
  /\ Len(db.path) >= 2 /\ db.path[Len(db.path) - 1] = 1 /\ db.path[Len(db.path)] = 2
  /\ db.bugs # {} /\ db.users # {} /\ db.prefs # {}

\* The parts of record k that are of the kind.
PartsOf(k, kind) ==
  {j \in DOMAIN view.entries[k].parts : view.entries[k].parts[j].kind = kind}

\* The time of the item n of the kind in the Bug the view was built from.
ItemTime(kind, n) ==
  GetTime(CASE kind = "comment" -> view.comments[n]
            [] kind = "attachment" -> view.attachments[n]
            [] kind = "history" -> view.history[n])

\* C28: a built timeline has one record per timestamp at most; every part
\* of a record is an item of the record's timestamp, so that a comment, an
\* attachment and a history entry of one timestamp share a record; and a
\* history entry of a timestamp that no comment has is in a record without
\* comment and attachment.
C28_OneRecordPerTimestamp ==
  view.state = "built" =>
    /\ \A k, l \in DOMAIN view.entries :
         view.entries[k].time = view.entries[l].time => k = l
    /\ \A k \in DOMAIN view.entries : \A j \in DOMAIN view.entries[k].parts :
         ItemTime(view.entries[k].parts[j].kind, view.entries[k].parts[j].n)
           = view.entries[k].time
    /\ \A n \in DOMAIN view.history :
         \E k \in DOMAIN view.entries :
           /\ view.entries[k].time = GetTime(view.history[n])
           /\ PartsOf(k, "history") # {}
           /\ (\A m \in DOMAIN view.comments :
                 GetTime(view.comments[m]) # GetTime(view.history[n]))
                => PartsOf(k, "comment") = {} /\ PartsOf(k, "attachment") = {}

\* A comment, an attachment and a history entry of one timestamp share a
\* record, and a history entry of another timestamp has a record of its own.
C28_Witness ==
  /\ view.state = "built"
  /\ \E k, l \in DOMAIN view.entries :
       /\ k # l
       /\ PartsOf(k, "comment") # {} /\ PartsOf(k, "attachment") # {}
       /\ PartsOf(k, "history") # {}
       /\ PartsOf(l, "history") # {} /\ PartsOf(l, "comment") = {}

\* C31: every get_data() call settles in the end, resolved or rejected.
C31_GetDataSettles ==
  \A c \in Calls :
    (calls[c].op = "get_data") ~> (calls[c].outcome # "pending")

\* Every record of the view has `rendered` and not `rendering`.
AllRendered ==
  \A k \in DOMAIN render.flags :
    render.flags[k].rendered /\ ~render.flags[k].rendering

\* C32: no record is handed to generate_entries() twice, replacing the
\* expander never fails, and when no batch is left after an activation every
\* record is rendered.
C32_RenderedOnce ==
  /\ \A k \in DOMAIN render.passes : render.passes[k] <= 1
  /\ ~render.threw
  /\ (render.clicks > 0 /\ render.batches = {}) => AllRendered

\* C33: once the expander was activated, every record of the view gets
\* rendered and the expander leaves the view.
C33_ExpansionCompletes ==
  (render.clicks > 0) ~> (AllRendered /\ render.expander = "removed")

\* After an activation no batch is left: a record that the constructor had
\* deferred is rendered and the expander is gone.
C33_Witness ==
  /\ render.clicks > 0 /\ render.batches = {}
  /\ AllRendered /\ render.expander = "removed"
  /\ \E k \in DOMAIN view.entries : ~view.entries[k].rendering

\* The comments of the Bug that are older than the last visit.
OlderComments ==
  {n \in DOMAIN view.comments : GetTime(view.comments[n]) < GetTime(view.lastVisit)}

\* The comments of the Bug that the constructor does not render.
DeferredComments ==
  {n \in DOMAIN view.comments : ~Rendered(GetTime(view.comments[n]))}

\* C34: with a last visit and no delay the expander is there exactly when
\* two comments or more are older than the last visit; the number it
\* announces is the number of comments the constructor does not render; and
\* every record from the most recent older comment on is rendered.
C34_ExpanderCount ==
  VisitKnown =>
    /\ view.expander > 0 <=> Cardinality(OlderComments) >= 2
    /\ view.expander > 0 => view.expander = Cardinality(DeferredComments)
    /\ \A n \in OlderComments : \A k \in DOMAIN view.entries :
         (\A m \in OlderComments : GetTime(view.comments[m]) <= GetTime(view.comments[n]))
           => (Rendered(view.entries[k].time)
                 <=> view.entries[k].time >= GetTime(view.comments[n]))

\* C35: a view that is built delayed, or from a Bug without a last visit,
\* marks every record for rendering and renders it in the initial batch,
\* counts no read comment and has no expander.
C35_NothingCollapsed ==
  (view.state = "built" /\ (view.delayed \/ view.lastVisit = Undefined)) =>
    /\ \A k \in DOMAIN view.entries :
         view.entries[k].rendering /\ Rendered(view.entries[k].time)
    /\ Len(view.dataArr) = Len(view.entries)
    /\ view.readComments = 0
    /\ view.expander = 0
    /\ render.expander = "none"
    /\ \A k \in DOMAIN render.passes : render.passes[k] = 1

\* A delayed view of a Bug with two comments older than its last visit.
C35_Witness ==
  /\ view.state = "built" /\ view.delayed /\ view.lastVisit # Undefined
  /\ Cardinality({k \in DOMAIN view.entries :
                    HasComment(k) /\ view.entries[k].time < GetTime(view.lastVisit)}) = 2

\* C36: when the load of the profile page has finished after a failure of
\* fetch_user, the status area shows the error's message; after either
\* outcome the panel is not busy.
C36_ErrorMessageStays ==
  page.pc = "done" =>
    /\ ~page.busy
    /\ page.failed => page.status = page.message

\* C37: a container that is busy is not busy later on, and a call of the
\* handler for another preference or another value changes no element and
\* starts nothing.
C37_BusyRemoved ==
  /\ \A m \in MediaIds : media.elems[m].busy ~> ~media.elems[m].busy
  /\ [][(media'.changes # media.changes
           /\ Ignored(media'.last.name, media'.last.value))
          => (media'.elems = media.elems /\ media'.jobs = media.jobs)]_vars

====
